---- MODULE Spec2Model ----
(***************************************************************************)
(* The wallet gateway of src/src/lib.rs: an actix-web server whose seven   *)
(* handlers share AppState { config, clients: Mutex<HashMap<String,        *)
(* Client>> } and forward to a Bitcoin node over blocking RPC calls.       *)
(*                                                                         *)
(* Each worker thread is a task.  A handler has no await point, so a task  *)
(* runs one request from entry to response; tasks interleave at the        *)
(* mutex and at the node calls.  The node is the environment: it keeps     *)
(* the set of wallets on disk and the set of loaded wallets, and every     *)
(* call may also fail in transport.                                        *)
(***************************************************************************)
EXTENDS Integers, Sequences, FiniteSets, TLC

\* Bounds of the model.
NumTasks == 2
NumNames == 2
\* Requests the gateway accepts in one run.
MaxReqs == 4
\* Requests accepted in one run of the create_wallet scenarios.
MaxCreates == 3
\* Entries in the details of a transaction record the node answers.
MaxDetails == 2

Tasks == 1..NumTasks
\* Wallet names (CreateWalletRequest.name, the path and body wallet fields).
Names == 1..NumNames

\* The task of the sequential scenario (one caller, one request at a time).
SeqTask == CHOOSE t \in Tasks : TRUE

VARIABLES
    clients,      \* AppState.clients: the HashMap behind the mutex
    lockHolder,   \* the task owning the MutexGuard, 0 when the mutex is free
    poisoned,     \* the mutex's poison flag (a guard was dropped by a panic)
    pc,           \* each task's position in its handler
    req,          \* each task's current (or last) request
    resp,         \* each task's HTTP response to it
    rpcs,         \* the node calls the request has issued, in order
    answers,      \* the node's answers to them, in order
    fault,        \* the request met a failure that the node's wallets do
                  \* not explain (transport, session construction)
    succ,         \* the request directly follows a successful create_wallet
                  \* of the same name by the same caller
    nodeExists,   \* node: wallets on disk
    nodeLoaded,   \* node: wallets loaded (what listwallets answers)
    nreq,         \* requests accepted so far
    created,      \* history: names for which create_wallet answered 200
    ensured       \* history: names for which a finished create_wallet
                  \* request had get_wallet return Ok

vars == <<clients, lockHolder, poisoned, pc, req, resp, rpcs, answers, fault,
          succ, nodeExists, nodeLoaded, nreq, created, ensured>>

nodeVars == <<nodeExists, nodeLoaded>>

----------------------------------------------------------------------------
\* Request inputs.

\* Address::from_str and require_network(Regtest) see three kinds of text.
AddrKinds == {"regtest", "mainnet", "garbage"}
\* SendBitcoinRequest.amount (f64), in whole coins.
Amounts == {-1, 0, 1}
\* Txid::from_str sees a 64-digit hex string or anything else.
TxidKinds == {"wellformed", "malformed"}

Kinds == {"create_wallet", "create_address", "get_balance", "mine_blocks",
          "send_bitcoin", "get_transaction", "get_mempool_entry"}

MkReq(k, n, a, m, x) ==
    [kind |-> k, name |-> n, address |-> a, amount |-> m, txid |-> x]

NoReq == MkReq("none", 0, "-", 0, "-")

Requests ==
    {MkReq("create_wallet", n, "-", 0, "-") : n \in Names}
    \cup {MkReq("create_address", n, "-", 0, "-") : n \in Names}
    \cup {MkReq("get_balance", n, "-", 0, "-") : n \in Names}
    \cup {MkReq("mine_blocks", n, a, 0, "-") : n \in Names, a \in AddrKinds}
    \cup {MkReq("send_bitcoin", n, a, m, "-") :
              n \in Names, a \in AddrKinds, m \in Amounts}
    \cup {MkReq(k, n, "-", 0, x) :
              k \in {"get_transaction", "get_mempool_entry"},
              n \in Names, x \in TxidKinds}

CreateRequests == {r \in Requests : r.kind = "create_wallet"}

\* A response: its status, its text body, and the fields of its JSON body
\* where the model follows them (none elsewhere).
RespJson(s, b, j) == [status |-> s, body |-> b, json |-> j]
Resp(s, b) == RespJson(s, b, << >>)
NoResp == Resp("none", "-")

----------------------------------------------------------------------------
\* Pure parts of the code.

\* Config::create_client: a Client bound to <rpc_url>/wallet/<wallet>.
create_client(wallet) == [wallet |-> wallet]

\* A lost update: the map is rebuilt from the new entry alone.
InsertLost(m, k, v) == [x \in {k} |-> v]
\* The insert is skipped.
InsertNothing(m, k, v) == m
\* HashMap::insert: adds the entry or overwrites the one under the same key.
Insert(m, k, v) == [x \in DOMAIN m \cup {k} |-> IF x = k THEN v ELSE m[x]]

\* The test never matches.
NeverCodeMinus4(e) == FALSE
\* The test matches every error.
AlwaysCodeMinus4(e) == TRUE
\* e.to_string().contains("code: -4")
IsCodeMinus4(e) == e = "code: -4"

\* Address::from_str(..) then require_network(Regtest): Ok, or the 400 body.
ParseAddress(a) ==
    CASE a = "garbage" -> "Invalid address"
      [] a = "mainnet" -> "Invalid network"
      [] OTHER -> "ok"

\* Amount::from_btc(f64): Err for a negative amount.
AmountFromBtc(m) == IF m < 0 THEN "err" ELSE "ok"

\* Txid::from_str
ParseTxid(x) == IF x = "wellformed" THEN "ok" ELSE "err"

\* GetTransactionResult, as far as serialize reads it: info.blockheight and
\* fee are Options, details is a Vec whose i-th entry carries the values i.
Detail(i) == [address |-> i, vout |-> i, category |-> i, label |-> i]
Details(n) == [i \in 1..n |-> Detail(i)]
TxRecords ==
    [blockheight : {"Some", "None"},
     details : {Details(n) : n \in 0..MaxDetails},
     fee : {"Some", "None"}]
NoTx == [blockheight |-> "None", details |-> << >>, fee |-> "None"]

\* A node answer: Ok ("ok", and other words where the handler tells kinds
\* of Ok apart) or the error's text, and the record an Ok of get_transaction
\* carries.
AnsTx(r, tx) == [res |-> r, tx |-> tx]
Ans(r) == AnsTx(r, NoTx)

\* One serialize_field call of serde_json's struct serializer: it writes
\* the key and the value onto the object, whatever was written before.
\* val holds the scalar written, or the elements where list is TRUE.
Field(k, v) == [key |-> k, list |-> FALSE, val |-> <<v>>]
ListField(k, vs) == [key |-> k, list |-> TRUE, val |-> vs]

\* The loop over details in serialize: four serialize_field calls an entry.
RECURSIVE DetailFields(_)
DetailFields(ds) ==
    IF ds = << >> THEN << >>
    ELSE <<Field("address", ds[1].address), Field("vout", ds[1].vout),
           Field("category", ds[1].category), Field("label", ds[1].label)>>
         \o DetailFields(Tail(ds))

\* GetTransactionResultWrapper::serialize on a record with a block height:
\* the members of the JSON object, in the order written.
Serialize(tx) ==
    <<Field("txid", 0), Field("blockhash", 0), Field("blockindex", 0),
      Field("blockheight", 0), Field("bip125_replaceable", 0),
      Field("blocktime", 0), Field("confirmations", 0), Field("time", 0),
      Field("timereceived", 0), ListField("wallet_conflicts", << >>),
      Field("amount", 0)>>
    \o DetailFields(tx.details)
    \o (IF tx.fee = "Some" THEN <<Field("fee", 0)>> ELSE << >>)
    \o <<Field("hex", 0)>>

----------------------------------------------------------------------------
\* The node, as the calls of get_wallet see it.  Each operator gives the
\* set of possible outcomes [res, ex, ld]: the answer and the node's
\* wallets after the call.  "transport" is a failure below the RPC layer.

Out(r, ex, ld) == [res |-> r, ex |-> ex, ld |-> ld]

NodeFault == {Out("transport", nodeExists, nodeLoaded)}

\* listwallets: the loaded wallets.
ListWallets == {Out("ok", nodeExists, nodeLoaded)} \cup NodeFault

\* loadwallet: -4 for a wallet that is loaded, -18 for one not on disk.
LoadWallet(n) ==
    {IF n \in nodeLoaded THEN Out("code: -4", nodeExists, nodeLoaded)
     ELSE IF n \notin nodeExists THEN Out("code: -18", nodeExists, nodeLoaded)
     ELSE Out("ok", nodeExists, nodeLoaded \cup {n})} \cup NodeFault

\* unloadwallet: -18 for a wallet that is not loaded.
UnloadWallet(n) ==
    {IF n \in nodeLoaded THEN Out("ok", nodeExists, nodeLoaded \ {n})
     ELSE Out("code: -18", nodeExists, nodeLoaded)} \cup NodeFault

\* createwallet: -4 for a wallet that is on disk; a new wallet is loaded.
CreateWallet(n) ==
    {IF n \in nodeExists THEN Out("code: -4", nodeExists, nodeLoaded)
     ELSE Out("ok", nodeExists \cup {n}, nodeLoaded \cup {n})} \cup NodeFault

----------------------------------------------------------------------------
TypeOK ==
    /\ DOMAIN clients \subseteq Names
    /\ lockHolder \in 0..NumTasks
    /\ poisoned \in BOOLEAN
    /\ nodeLoaded \subseteq nodeExists
    /\ nodeExists \subseteq Names
    /\ \A t \in Tasks : req[t] \in Requests \cup {NoReq}

Init ==
    /\ clients = << >>
    /\ lockHolder = 0
    /\ poisoned = FALSE
    /\ pc = [t \in Tasks |-> "idle"]
    /\ req = [t \in Tasks |-> NoReq]
    /\ resp = [t \in Tasks |-> NoResp]
    /\ rpcs = [t \in Tasks |-> << >>]
    /\ answers = [t \in Tasks |-> << >>]
    /\ fault = [t \in Tasks |-> FALSE]
    /\ succ = [t \in Tasks |-> FALSE]
    /\ nodeExists \in SUBSET Names
    /\ nodeLoaded \in SUBSET nodeExists
    /\ nreq = 0
    /\ created = {}
    /\ ensured = {}

----------------------------------------------------------------------------
\* Steps shared by the handlers.

\* The handler returns an HttpResponse (or unwinds: status "panic").
Done(t, s, b) ==
    /\ pc' = [pc EXCEPT ![t] = "done"]
    /\ resp' = [resp EXCEPT ![t] = Resp(s, b)]

\* A node call through session via is on the wire; the task waits for it.
Issue(t, op, via) ==
    rpcs' = [rpcs EXCEPT ![t] = Append(@, [op |-> op, via |-> via])]

\* The node's answer to the call in flight reaches the task.
Answered(t, a) == answers' = [answers EXCEPT ![t] = Append(@, a)]

\* The call is issued with the MutexGuard alive: the task keeps the mutex
\* while the node works.
Call(t, op, via) ==
    /\ Issue(t, op, via)
    /\ pc' = [pc EXCEPT ![t] = "rpc"]
    /\ lockHolder' = t
    /\ UNCHANGED <<resp, answers>>

\* A request reaches a worker; the handler has not run yet.
Request(t, r) ==
    /\ pc[t] \in {"idle", "done"}
    /\ nreq < MaxReqs
    /\ nreq' = nreq + 1
    /\ pc' = [pc EXCEPT ![t] = "start"]
    /\ req' = [req EXCEPT ![t] = r]
    /\ resp' = [resp EXCEPT ![t] = NoResp]
    /\ rpcs' = [rpcs EXCEPT ![t] = << >>]
    /\ answers' = [answers EXCEPT ![t] = << >>]
    /\ fault' = [fault EXCEPT ![t] = FALSE]
    /\ succ' = [succ EXCEPT ![t] = /\ r.kind = "create_wallet"
                                   /\ pc[t] = "done"
                                   /\ req[t] = r
                                   /\ resp[t].status = "200"]
    /\ UNCHANGED <<clients, lockHolder, poisoned, nodeVars, created, ensured>>

----------------------------------------------------------------------------
\* create_wallet and get_wallet.  No guard is held during get_wallet.

create_wallet(t) ==
    /\ pc[t] = "start"
    /\ req[t].kind = "create_wallet"
    /\ \/ /\ pc' = [pc EXCEPT ![t] = "list"]
          /\ UNCHANGED <<resp, fault>>
       \/ /\ Done(t, "500", "client")
          /\ fault' = [fault EXCEPT ![t] = TRUE]
    /\ UNCHANGED <<clients, lockHolder, poisoned, req, rpcs, answers, succ,
                   nodeVars, nreq, created, ensured>>

\* The node answers a call of get_wallet: its wallets change, and a
\* transport failure is noted.
NodeAnswers(t, o) ==
    /\ nodeExists' = o.ex
    /\ nodeLoaded' = o.ld
    /\ fault' = [fault EXCEPT ![t] = @ \/ o.res = "transport"]
    /\ Answered(t, Ans(o.res))

\* get_wallet returns Err(e): create_wallet answers 500 with e's text.
GetWalletErr(t, e) == Done(t, "500", e)

get_wallet_list(t) ==
    /\ pc[t] = "list"
    /\ Issue(t, "listwallets", create_client(req[t].name))
    /\ \E o \in ListWallets :
          /\ NodeAnswers(t, o)
          /\ IF o.res # "ok" THEN GetWalletErr(t, o.res)
             ELSE /\ pc' = [pc EXCEPT ![t] =
                               IF req[t].name \in o.ld THEN "load" ELSE "create"]
                  /\ UNCHANGED resp
    /\ UNCHANGED <<clients, lockHolder, poisoned, req, succ, nreq, created, ensured>>

get_wallet_load(t) ==
    /\ pc[t] = "load"
    /\ Issue(t, "loadwallet", create_client(req[t].name))
    /\ \E o \in LoadWallet(req[t].name) :
          /\ NodeAnswers(t, o)
          /\ IF o.res = "ok"
             THEN pc' = [pc EXCEPT ![t] = "insert"] /\ UNCHANGED resp
             ELSE IF IsCodeMinus4(o.res)
             THEN pc' = [pc EXCEPT ![t] = "unload"] /\ UNCHANGED resp
             ELSE GetWalletErr(t, o.res)
    /\ UNCHANGED <<clients, lockHolder, poisoned, req, succ, nreq, created, ensured>>

get_wallet_unload(t) ==
    /\ pc[t] = "unload"
    /\ Issue(t, "unloadwallet", create_client(req[t].name))
    /\ \E o \in UnloadWallet(req[t].name) :
          /\ NodeAnswers(t, o)
          /\ IF o.res = "ok"
             THEN pc' = [pc EXCEPT ![t] = "reload"] /\ UNCHANGED resp
             ELSE GetWalletErr(t, o.res)
    /\ UNCHANGED <<clients, lockHolder, poisoned, req, succ, nreq, created, ensured>>

get_wallet_reload(t) ==
    /\ pc[t] = "reload"
    /\ Issue(t, "loadwallet", create_client(req[t].name))
    /\ \E o \in LoadWallet(req[t].name) :
          /\ NodeAnswers(t, o)
          /\ IF o.res = "ok"
             THEN pc' = [pc EXCEPT ![t] = "insert"] /\ UNCHANGED resp
             ELSE GetWalletErr(t, o.res)
    /\ UNCHANGED <<clients, lockHolder, poisoned, req, succ, nreq, created, ensured>>

get_wallet_create(t) ==
    /\ pc[t] = "create"
    /\ Issue(t, "createwallet", create_client(req[t].name))
    /\ \E o \in CreateWallet(req[t].name) :
          /\ NodeAnswers(t, o)
          /\ IF o.res = "ok"
             THEN pc' = [pc EXCEPT ![t] = "insert"] /\ UNCHANGED resp
             ELSE IF IsCodeMinus4(o.res)
             THEN GetWalletErr(t, "Wallet already exists but was not listed")
             ELSE GetWalletErr(t, o.res)
    /\ UNCHANGED <<clients, lockHolder, poisoned, req, succ, nreq, created, ensured>>

\* The LoadWalletResult that get_wallet returned.
Outcome(t) ==
    IF rpcs[t][Len(rpcs[t])].op = "createwallet" THEN "created" ELSE "loaded"

\* The Ok arm of create_wallet: lock().unwrap(), insert, answer; the guard
\* is dropped with the arm.  On a poisoned mutex unwrap panics.
create_wallet_insert(t) ==
    /\ pc[t] = "insert"
    /\ lockHolder = 0
    /\ ensured' = ensured \cup {req[t].name}
    /\ IF poisoned
       THEN /\ Done(t, "panic", "PoisonError")
            /\ UNCHANGED <<clients, created>>
       ELSE /\ clients' = Insert(clients, req[t].name, create_client(req[t].name))
            /\ created' = created \cup {req[t].name}
            /\ Done(t, "200", Outcome(t))
    /\ UNCHANGED <<lockHolder, poisoned, req, rpcs, answers, fault, succ,
                   nodeVars, nreq>>

CreateSteps(t) ==
    \/ create_wallet(t)
    \/ get_wallet_list(t)
    \/ get_wallet_load(t)
    \/ get_wallet_unload(t)
    \/ get_wallet_reload(t)
    \/ get_wallet_create(t)
    \/ create_wallet_insert(t)

----------------------------------------------------------------------------
\* The handlers that take the guard first and keep it to their end.

\* The handler is at data.clients.lock(): it waits until the mutex is free.
AtLock(t, k) ==
    /\ pc[t] = "start"
    /\ req[t].kind = k
    /\ lockHolder = 0

\* The handler's node call is on the wire.
InCall(t, k) ==
    /\ pc[t] = "rpc"
    /\ req[t].kind = k
    /\ lockHolder = t

\* The handler ends before any node call: nothing but its response changes.
\* (lock() on a poisoned mutex gives Err and unwrap() panics on it: the
\* handler ends with status "panic" and the guard inside the Err is dropped.)
Answer(t, s, b) ==
    /\ Done(t, s, b)
    /\ UNCHANGED <<lockHolder, rpcs, answers, poisoned>>

\* The handler puts its node call on the wire once more before it ends.
ReturnReissues(t, s, b) ==
    /\ Done(t, s, b)
    /\ lockHolder' = 0
    /\ rpcs' = [rpcs EXCEPT ![t] = @ \o @]
    /\ UNCHANGED poisoned
\* The handler ends after its node call and drops the guard.
Return(t, s, b) ==
    /\ Done(t, s, b)
    /\ lockHolder' = 0
    /\ UNCHANGED <<rpcs, poisoned>>

\* The handler panics with the guard alive: unwinding drops the guard and
\* poisons the mutex.
PanicHoldingGuard(t, b) ==
    /\ Done(t, "panic", b)
    /\ lockHolder' = 0
    /\ poisoned' = TRUE
    /\ UNCHANGED rpcs

\* The handler empties the map it was handed.
FrameClears ==
    /\ clients' = << >>
    /\ UNCHANGED <<req, fault, succ, nodeVars, nreq, created, ensured>>
\* What these handlers leave alone: they bind the guard immutably and only
\* read the map.
Frame == UNCHANGED <<clients, req, fault, succ, nodeVars, nreq, created, ensured>>

create_address(t) ==
    /\ AtLock(t, "create_address")
    /\ IF poisoned THEN Answer(t, "panic", "PoisonError")
       ELSE IF req[t].name \notin DOMAIN clients
       THEN Answer(t, "404", "No such wallet")
       ELSE Call(t, "getnewaddress", clients[req[t].name]) /\ UNCHANGED poisoned
    /\ Frame

\* get_new_address answers an address of some network, or fails.
create_address_return(t) ==
    /\ InCall(t, "create_address")
    /\ \E ans \in {"regtest", "mainnet", "code: -4", "transport"} :
          /\ Answered(t, Ans(ans))
          /\ CASE ans = "regtest" -> Return(t, "200", "address")
               [] ans = "mainnet" ->
                      Return(t, "400", "Address generated with error")
               [] OTHER ->
                      Return(t, "400", "Failed to generate a new address")
    /\ Frame

get_balance(t) ==
    /\ AtLock(t, "get_balance")
    /\ IF poisoned THEN Answer(t, "panic", "PoisonError")
       ELSE IF req[t].name \notin DOMAIN clients
       THEN Answer(t, "404", "No such wallet")
       ELSE Call(t, "getwalletinfo", clients[req[t].name]) /\ UNCHANGED poisoned
    /\ Frame

get_balance_return(t) ==
    /\ InCall(t, "get_balance")
    /\ \E ans \in {"ok", "code: -18", "transport"} :
          /\ Answered(t, Ans(ans))
          /\ IF ans = "ok" THEN Return(t, "200", "balance")
             ELSE Return(t, "500", ans)
    /\ Frame

mine_blocks(t) ==
    /\ AtLock(t, "mine_blocks")
    /\ IF poisoned THEN Answer(t, "panic", "PoisonError")
       ELSE IF req[t].name \notin DOMAIN clients
       THEN Answer(t, "404", "Wallet not found")
       ELSE IF ParseAddress(req[t].address) # "ok"
       THEN Answer(t, "400", ParseAddress(req[t].address))
       ELSE Call(t, "generatetoaddress", clients[req[t].name])
            /\ UNCHANGED poisoned
    /\ Frame

mine_blocks_return(t) ==
    /\ InCall(t, "mine_blocks")
    /\ \E ans \in {"ok", "code: -18", "transport"} :
          /\ Answered(t, Ans(ans))
          /\ IF ans = "ok" THEN Return(t, "200", "block_hashes")
             ELSE Return(t, "500", ans)
    /\ Frame

send_bitcoin(t) ==
    /\ AtLock(t, "send_bitcoin")
    /\ IF poisoned THEN Answer(t, "panic", "PoisonError")
       ELSE IF req[t].name \notin DOMAIN clients
       THEN Answer(t, "404", "Wallet not found")
       ELSE IF ParseAddress(req[t].address) # "ok"
       THEN Answer(t, "400", ParseAddress(req[t].address))
       ELSE IF AmountFromBtc(req[t].amount) # "ok"
       THEN PanicHoldingGuard(t, "unwrap") /\ UNCHANGED answers
       ELSE Call(t, "sendtoaddress", clients[req[t].name])
            /\ UNCHANGED poisoned
    /\ Frame

send_bitcoin_return(t) ==
    /\ InCall(t, "send_bitcoin")
    /\ \E ans \in {"ok", "code: -6", "transport"} :
          /\ Answered(t, Ans(ans))
          /\ IF ans = "ok" THEN Return(t, "200", "txid")
             ELSE Return(t, "500", ans)
    /\ Frame

\* clients.values().next(): the first value in the map's iteration order,
\* which the hasher's random keys decide: any of the values.
FirstClient == {clients[n] : n \in DOMAIN clients}

get_transaction(t) ==
    /\ AtLock(t, "get_transaction")
    /\ IF poisoned THEN Answer(t, "panic", "PoisonError")
       ELSE IF FirstClient = {}
       THEN Answer(t, "503", "No active clients")
       ELSE IF ParseTxid(req[t].txid) # "ok"
       THEN Answer(t, "400", "Invalid transaction ID")
       ELSE /\ \E client \in FirstClient : Call(t, "gettransaction", client)
            /\ UNCHANGED poisoned
    /\ Frame

\* The handler ends after its node call with a JSON body and drops the guard.
ReturnJson(t, j) ==
    /\ pc' = [pc EXCEPT ![t] = "done"]
    /\ resp' = [resp EXCEPT ![t] = RespJson("200", "transaction", j)]
    /\ lockHolder' = 0
    /\ UNCHANGED <<rpcs, poisoned>>

\* get_transaction answers a record with or without a block height, or
\* fails; GetTransactionResultWrapper::serialize runs inside json(), with
\* the guard alive, and expects the height.
get_transaction_return(t) ==
    /\ InCall(t, "get_transaction")
    /\ \E ans \in {AnsTx("ok", tx) : tx \in TxRecords}
                    \cup {Ans("code: -5"), Ans("transport")} :
          /\ Answered(t, ans)
          /\ IF ans.res # "ok" THEN Return(t, "500", ans.res)
             ELSE IF ans.tx.blockheight = "None"
             THEN PanicHoldingGuard(t, "expect")
             ELSE ReturnJson(t, Serialize(ans.tx))
    /\ Frame

get_mempool_entry(t) ==
    /\ AtLock(t, "get_mempool_entry")
    /\ IF poisoned THEN Answer(t, "panic", "PoisonError")
       ELSE IF FirstClient = {}
       THEN Answer(t, "503", "No active clients")
       ELSE IF ParseTxid(req[t].txid) # "ok"
       THEN Answer(t, "400", "Invalid transaction ID")
       ELSE /\ \E client \in FirstClient : Call(t, "getmempoolentry", client)
            /\ UNCHANGED poisoned
    /\ Frame

get_mempool_entry_return(t) ==
    /\ InCall(t, "get_mempool_entry")
    /\ \E ans \in {"ok", "code: -5", "transport"} :
          /\ Answered(t, Ans(ans))
          /\ IF ans = "ok" THEN Return(t, "200", "entry")
             ELSE Return(t, "500", ans)
    /\ Frame

----------------------------------------------------------------------------
\* The gateway: any request at any time, on any worker.
Next ==
    \E t \in Tasks :
        \/ \E r \in Requests : Request(t, r)
        \/ CreateSteps(t)
        \/ create_address(t)
        \/ create_address_return(t)
        \/ get_balance(t)
        \/ get_balance_return(t)
        \/ mine_blocks(t)
        \/ mine_blocks_return(t)
        \/ send_bitcoin(t)
        \/ send_bitcoin_return(t)
        \/ get_transaction(t)
        \/ get_transaction_return(t)
        \/ get_mempool_entry(t)
        \/ get_mempool_entry_return(t)

Spec == Init /\ [][Next]_vars

----------------------------------------------------------------------------
\* The scenario of create_wallet requests alone, from any number of callers.
NextCreate ==
    \E t \in Tasks :
        \/ \E r \in CreateRequests : nreq < MaxCreates /\ Request(t, r)
        \/ CreateSteps(t)

SpecCreate == Init /\ [][NextCreate]_vars

\* The same, with every request that is under way taking its next step in
\* the end: the runtime polls each handler it has started, and the node
\* client gives every call an answer or a timeout.
SpecCreateFair == SpecCreate /\ \A t \in Tasks : WF_vars(CreateSteps(t))

\* One caller issuing create_wallet requests one after another.
NextSeq ==
    \/ \E r \in CreateRequests : nreq < MaxCreates /\ Request(SeqTask, r)
    \/ CreateSteps(SeqTask)

SpecSeq == Init /\ [][NextSeq]_vars

----------------------------------------------------------------------------
\* Steps as the properties below see them.

\* Task t's handler of kind k leaves data.clients.lock() in this step.
PassesLock(t, k) ==
    /\ pc[t] = "start"
    /\ req[t].kind = k
    /\ pc'[t] # "start"

\* Task t's create_wallet answers 200 in this step.
CreateSucceeds(t) ==
    /\ pc[t] = "insert"
    /\ pc'[t] = "done"
    /\ resp'[t].status = "200"

\* Task t's create_wallet ends in this step without reaching the Ok arm.
CreateFails(t) ==
    /\ req[t].kind = "create_wallet"
    /\ pc[t] \in {"start", "list", "load", "unload", "reload", "create"}
    /\ pc'[t] = "done"

\* The names of the node calls a request issued.
Ops(t) == [i \in 1..Len(rpcs[t]) |-> rpcs[t][i].op]

\* The session that belongs to wallet name n.
SessionOf(n) == [wallet |-> n]

----------------------------------------------------------------------------
\* C1: once create_wallet(n) has answered 200, n is in the registry with
\* the session of n and the mutex is free and sound, and every get_balance(n)
\* that looks n up afterwards finds that session, issues its call through
\* it and does not answer 404.
C1_CreateThenBalanceFindsSession ==
    [][\A t \in Tasks :
        /\ CreateSucceeds(t) =>
              /\ req[t].name \in DOMAIN clients'
              /\ clients'[req[t].name] = SessionOf(req[t].name)
              /\ lockHolder' = 0
              /\ ~poisoned'
        /\ (PassesLock(t, "get_balance") /\ req[t].name \in created) =>
              /\ resp'[t].status # "404"
              /\ ~poisoned =>
                    /\ pc'[t] = "rpc"
                    /\ rpcs'[t] = <<[op |-> "getwalletinfo",
                                     via |-> SessionOf(req[t].name)]>>
      ]_vars

\* A get_balance(n) after a successful create_wallet(n) is in its node call.
C1_Witness ==
    \E t \in Tasks :
        /\ pc[t] = "rpc"
        /\ req[t].kind = "get_balance"
        /\ req[t].name \in created

\* C2: whatever happened before, get_balance on a name that is not in the
\* registry answers 404 and does not abort.
C2_UnregisteredBalanceIs404 ==
    [][\A t \in Tasks :
        (PassesLock(t, "get_balance") /\ req[t].name \notin DOMAIN clients)
            => resp'[t].status = "404"
      ]_vars

\* C3: a name is a key of the registry exactly when a finished
\* create_wallet request for it had get_wallet succeed, and a create_wallet
\* that fails before that answers an error and leaves the registry alone.
C3_RegistryIffEnsured ==
    [][/\ DOMAIN clients' = ensured'
       /\ \A t \in Tasks :
            CreateFails(t) => (resp'[t].status = "500" /\ clients' = clients)
      ]_vars

\* C4: no step removes or changes an entry of the registry, and a step of
\* any handler other than create_wallet leaves the registry as it is,
\* whatever the handler answers.
C4_NoUnregister ==
    [][/\ \A n \in DOMAIN clients :
            n \in DOMAIN clients' /\ clients'[n] = clients[n]
       /\ \A t \in Tasks :
            (pc'[t] # pc[t] /\ req[t].kind # "create_wallet")
                => clients' = clients
       /\ clients' # clients => \E t \in Tasks : CreateSucceeds(t)
      ]_vars

\* A send_bitcoin on a registered wallet has panicked, and the wallet is
\* still registered.
C4_Witness ==
    \E t \in Tasks :
        /\ pc[t] = "done"
        /\ req[t].kind = "send_bitcoin"
        /\ resp[t].status = "panic"
        /\ poisoned
        /\ req[t].name \in DOMAIN clients

\* C5: a create_wallet(n) that directly follows a successful
\* create_wallet(n), with nobody else at the node and no transport failure,
\* lists n, is refused the load with -4, unloads, loads again and answers
\* 200 "loaded"; it never reports the wallet-state conflict.
C5_SecondCreateReloads ==
    \A t \in Tasks :
        (pc[t] = "done" /\ req[t].kind = "create_wallet"
            /\ succ[t] /\ ~fault[t])
        => /\ resp[t] = Resp("200", "loaded")
           /\ Ops(t) = <<"listwallets", "loadwallet", "unloadwallet",
                         "loadwallet">>

\* The second of two create_wallet(n) in succession has answered 200.
C5_Witness ==
    \E t \in Tasks :
        /\ pc[t] = "done"
        /\ succ[t]
        /\ ~fault[t]
        /\ resp[t].status = "200"
        /\ Len(rpcs[t]) = 4

\* C6: get_transaction and get_mempool_entry for wallet w issue their call
\* through the session registered under w, and answer 404 without a call
\* when w is not registered.
C6_RoutedToRequestedWallet ==
    [][\A t \in Tasks :
        (PassesLock(t, "get_transaction") \/ PassesLock(t, "get_mempool_entry"))
        => IF req[t].name \in DOMAIN clients
           THEN pc'[t] = "rpc" => rpcs'[t][1].via = clients[req[t].name]
           ELSE resp'[t].status = "404" /\ rpcs'[t] = << >>
      ]_vars

\* C7: send_bitcoin to an address of another network answers 400 and
\* issues no node call, whatever the registry holds.
C7_WrongNetworkIs400 ==
    [][\A t \in Tasks :
        (PassesLock(t, "send_bitcoin") /\ req[t].address = "mainnet")
        => /\ resp'[t].status = "400"
           /\ rpcs'[t] = << >>
      ]_vars

\* C8: get_transaction and get_mempool_entry with a malformed txid answer
\* 400 and issue no node call, whatever the registry holds.
C8_MalformedTxidIs400 ==
    [][\A t \in Tasks :
        ((PassesLock(t, "get_transaction") \/ PassesLock(t, "get_mempool_entry"))
            /\ req[t].txid = "malformed")
        => /\ resp'[t].status = "400"
           /\ rpcs'[t] = << >>
      ]_vars

\* The create_wallet requests of the tasks in S are over, each after its
\* get_wallet succeeded, and they are for pairwise distinct names.
DistinctCreatesDone(S) ==
    /\ \A t \in S :
          /\ pc[t] = "done"
          /\ req[t].kind = "create_wallet"
          /\ resp[t].status \in {"200", "panic"}
    /\ \A t, u \in S : t # u => req[t].name # req[u].name

\* C9: when concurrent create_wallet requests for pairwise distinct names
\* have all completed after a successful get_wallet, the registry holds
\* every one of the names, each with the session built for that name.
C9_DistinctCreatesAllRegistered ==
    \A S \in SUBSET Tasks :
        DistinctCreatesDone(S) =>
            /\ \A t \in S :
                  /\ req[t].name \in DOMAIN clients
                  /\ clients[req[t].name] = SessionOf(req[t].name)
            /\ Cardinality(DOMAIN clients) >= Cardinality(S)

\* Every task has completed a create_wallet, all for different names.
C9_Witness ==
    /\ DistinctCreatesDone(Tasks)
    /\ Cardinality(DOMAIN clients) >= NumTasks

\* The first step of the handler that task t is about to run.
LockStep(t) ==
    \/ create_address(t)
    \/ get_balance(t)
    \/ mine_blocks(t)
    \/ send_bitcoin(t)
    \/ get_transaction(t)
    \/ get_mempool_entry(t)

\* The handlers that look their session up under the wallet name.
ByName == {"create_address", "get_balance", "mine_blocks", "send_bitcoin"}

\* C10: while a handler for wallet A waits for the node, a request for
\* another registered wallet B can do its lookup and issue its own call.
C10_UnrelatedWalletsDoNotBlock ==
    \A a, b \in Tasks :
        (/\ pc[a] = "rpc"
         /\ req[a].kind \in ByName
         /\ pc[b] = "start"
         /\ req[b].kind \in ByName
         /\ req[b].name \in DOMAIN clients
         /\ req[b].name # req[a].name)
        => ENABLED LockStep(b)

----------------------------------------------------------------------------
\* The error texts of the node and of the transport below it.
NodeErrs == {"code: -4", "code: -5", "code: -6", "code: -18", "transport"}

\* Task t's request has ended and the last answer it had from the node is a.
LastAnswer(t) == answers[t][Len(answers[t])]
EndedOnAnswer(t) == pc[t] = "done" /\ Len(answers[t]) >= 1

\* C11: a request to a handler other than create_wallet issues at most one
\* node call; a send_bitcoin whose sendtoaddress the node answers with a
\* failure ends with 500 and that one sendtoaddress as its only call.
C11_AtMostOneCall ==
    \A t \in Tasks :
        req[t].kind \in Kinds \ {"create_wallet"} =>
            /\ Len(rpcs[t]) <= 1
            /\ (/\ req[t].kind = "send_bitcoin"
                /\ EndedOnAnswer(t)
                /\ LastAnswer(t).res \in NodeErrs)
               => /\ resp[t].status = "500"
                  /\ Ops(t) = <<"sendtoaddress">>

\* A send_bitcoin that the node refused has ended.
C11_Witness ==
    \E t \in Tasks :
        /\ req[t].kind = "send_bitcoin"
        /\ EndedOnAnswer(t)
        /\ LastAnswer(t).res = "code: -6"
        /\ resp[t].status = "500"
        /\ Len(rpcs[t]) = 1

\* C12: get_transaction and get_mempool_entry, given a well-formed txid
\* that the node does not know (error -5), answer 404.
C12_UnknownTxidIs404 ==
    \A t \in Tasks :
        (/\ req[t].kind \in {"get_transaction", "get_mempool_entry"}
         /\ ParseTxid(req[t].txid) = "ok"
         /\ EndedOnAnswer(t)
         /\ LastAnswer(t).res = "code: -5")
        => resp[t].status = "404"

\* C13: a request whose node call failed (an error from the node or from
\* the transport) ends with 500 or 503, whatever the handler.
C13_NodeFailureIsServerError ==
    \A t \in Tasks :
        (EndedOnAnswer(t) /\ LastAnswer(t).res \in NodeErrs)
        => resp[t].status \in {"500", "503"}

\* C16: a get_transaction that the node answers with a record without a
\* block height ends with 200, and the mutex is left unpoisoned.
C16_UnconfirmedIsServed ==
    \A t \in Tasks :
        (/\ req[t].kind = "get_transaction"
         /\ EndedOnAnswer(t)
         /\ LastAnswer(t).res = "ok"
         /\ LastAnswer(t).tx.blockheight = "None")
        => resp[t].status = "200" /\ ~poisoned

\* C17: a send_bitcoin request ends with an HTTP response, whatever its
\* amount, and without the mutex held by its task.
C17_SendAlwaysAnswers ==
    \A t \in Tasks :
        (req[t].kind = "send_bitcoin" /\ pc[t] = "done")
        => /\ resp[t].status \in {"200", "400", "404", "500"}
           /\ lockHolder # t

\* The fields that serialize writes once for every entry of details.
Repeated == {"address", "vout", "category", "label"}

\* The members of JSON object j under key k.
Members(j, k) == {i \in 1..Len(j) : j[i].key = k}

\* C18: the 200 body of get_transaction for a record with n detail entries
\* has no member under a repeated field where n = 0, and where n > 1 has
\* under each repeated field one member, the list of the n entries' values
\* in order.
C18_DetailsSerializeAsLists ==
    \A t \in Tasks :
        (/\ req[t].kind = "get_transaction"
         /\ pc[t] = "done"
         /\ resp[t].status = "200")
        => LET ds == LastAnswer(t).tx.details
               j == resp[t].json
           IN  /\ Len(ds) = 0 => \A k \in Repeated : Members(j, k) = {}
               /\ Len(ds) > 1 =>
                      \A k \in Repeated :
                          /\ Cardinality(Members(j, k)) = 1
                          /\ \A i \in Members(j, k) :
                                 j[i] = ListField(k, [d \in 1..Len(ds) |-> ds[d][k]])

----------------------------------------------------------------------------
\* get_wallet as the properties below see it.

\* Task t's get_wallet gets the answer to its listwallets in this step.
Lists(t) ==
    /\ pc[t] = "list"
    /\ pc'[t] # "list"
    /\ answers'[t][1].res = "ok"

\* get_wallet has returned what answer a makes it return, and create_wallet
\* has gone on with it: to the insert on Ok, to a 500 with the error's text
\* on Err.
Returned(t, a) ==
    IF a.res = "ok"
    THEN pc[t] = "insert" \/ (pc[t] = "done" /\ resp[t].status # "500")
    ELSE pc[t] = "done" /\ resp[t] = Resp("500", a.res)

\* Task t's get_wallet found the name listed.
InLoadBranch(t) ==
    /\ req[t].kind = "create_wallet"
    /\ \/ pc[t] = "load"
       \/ Len(rpcs[t]) >= 2 /\ rpcs[t][2].op = "loadwallet"

\* The calls of the load branch so far, and where each answer led.
LoadProtocol(t) ==
    LET n == Len(answers[t])
        a == answers[t]
    IN  /\ Len(rpcs[t]) = n
        /\ Ops(t) \in {<<"listwallets">>,
                       <<"listwallets", "loadwallet">>,
                       <<"listwallets", "loadwallet", "unloadwallet">>,
                       <<"listwallets", "loadwallet", "unloadwallet",
                         "loadwallet">>}
        /\ n = 1 => pc[t] = "load"
        /\ n = 2 => IF a[2].res = "code: -4" THEN pc[t] = "unload"
                    ELSE Returned(t, a[2])
        /\ n = 3 => /\ a[2].res = "code: -4"
                    /\ IF a[3].res = "ok" THEN pc[t] = "reload"
                       ELSE Returned(t, a[3])
        /\ n = 4 => /\ a[2].res = "code: -4"
                    /\ a[3].res = "ok"
                    /\ Returned(t, a[4])

\* C14: a get_wallet whose listwallets names the wallet goes to loadwallet
\* and never to createwallet; only a -4 from that load is followed by one
\* unloadwallet and, if that succeeds, one more loadwallet whose result is
\* what get_wallet returns; any other failure is returned with no further
\* call; and a get_wallet that has begun to load returns in the end.
C14_LoadBranch ==
    /\ [](\A t \in Tasks : InLoadBranch(t) => LoadProtocol(t))
    /\ [][\A t \in Tasks :
            (Lists(t) /\ req[t].name \in nodeLoaded) => pc'[t] = "load"]_vars
    /\ \A t \in Tasks : (pc[t] = "load") ~> (pc[t] \in {"insert", "done"})

\* A get_wallet was refused its second load and has returned the error.
C14_Witness ==
    \E t \in Tasks :
        /\ InLoadBranch(t)
        /\ pc[t] = "done"
        /\ Len(rpcs[t]) = 4
        /\ LastAnswer(t).res = "code: -4"
        /\ resp[t] = Resp("500", "code: -4")

\* Task t's get_wallet found the name not listed.
InCreateBranch(t) ==
    /\ req[t].kind = "create_wallet"
    /\ \/ pc[t] = "create"
       \/ Len(rpcs[t]) >= 2 /\ rpcs[t][2].op = "createwallet"

\* The calls of the create branch so far, and where the answer led.
CreateProtocol(t) ==
    LET n == Len(answers[t])
        a == answers[t]
    IN  /\ Len(rpcs[t]) = n
        /\ Ops(t) \in {<<"listwallets">>, <<"listwallets", "createwallet">>}
        /\ n = 1 => pc[t] = "create"
        /\ n = 2 =>
              IF a[2].res = "code: -4"
              THEN /\ pc[t] = "done"
                   /\ resp[t] =
                          Resp("500", "Wallet already exists but was not listed")
              ELSE Returned(t, a[2])

\* C15: a get_wallet whose listwallets does not name the wallet goes to
\* createwallet, issues it once and issues neither loadwallet nor
\* unloadwallet; a -4 from it is answered as "Wallet already exists but
\* was not listed", any other failure with the error's own text, and a
\* failed create leaves the registry as it was.
C15_CreateBranch ==
    /\ [](\A t \in Tasks : InCreateBranch(t) => CreateProtocol(t))
    /\ [][\A t \in Tasks :
            /\ (Lists(t) /\ req[t].name \notin nodeLoaded)
                   => pc'[t] = "create"
            /\ (pc[t] = "create" /\ pc'[t] = "done")
                   => clients' = clients]_vars

\* A createwallet was refused with -4 and the name is not registered.
C15_Witness ==
    \E t \in Tasks :
        /\ InCreateBranch(t)
        /\ pc[t] = "done"
        /\ LastAnswer(t).res = "code: -4"
        /\ resp[t].body = "Wallet already exists but was not listed"
        /\ req[t].name \notin DOMAIN clients

\* C19: two create_wallet requests for one name, the only requests so far
\* and neither meeting a failure outside the node's wallets, have ended:
\* one of them answered 200, the name is the registry's one entry, and the
\* wallet is loaded at the node.
C19_SameNameRace ==
    \A a, b \in Tasks :
        (/\ a # b
         /\ nreq = 2
         /\ req[a].kind = "create_wallet"
         /\ req[b] = req[a]
         /\ pc[a] = "done" /\ pc[b] = "done"
         /\ ~fault[a] /\ ~fault[b])
        => /\ resp[a].status = "200" \/ resp[b].status = "200"
           /\ DOMAIN clients = {req[a].name}
           /\ req[a].name \in nodeLoaded

====
